---- MODULE Spec2Model ----
(***************************************************************************)
(* Model of the RFP proposal writer: GeminiService (model resolution at    *)
(* construction, the four generation operations, the matching-table        *)
(* parser).  Text is modelled as sequences of one-character strings so     *)
(* that split / strip / replace / lower / title are computed, not assumed. *)
(***************************************************************************)
EXTENDS Integers, Sequences, FiniteSets, TLC

VARIABLES
    pc,             \* position of the process / of the call being modelled
    api_key,        \* GEMINI_API_KEY is set
    model_name,     \* GEMINI_MODEL, or the built-in default
    model,          \* self.model: the bound handle (a model name) or NoModel
    idx,            \* position of the for loop in models_to_try
    attempts,       \* bind / probe calls made by the constructor, in order
    listing,        \* outcome of genai.list_models(), or NotListed
    calls,          \* upstream generate_content calls made after construction
    upstream,       \* what the last upstream generate_content call produced
    outcome,        \* what the last operation returned or raised
    response_text,  \* the reply text handed to _parse_matching_table
    matches,        \* the list _parse_matching_table returned
    content,        \* the text handed to _parse_content_sections
    sections,       \* the list _parse_content_sections returned
    sessions,       \* the user's stored session list (sessions/<user_id>.json)
    served,         \* the last request handled and the response it got
    output_file,    \* the document at the user's output path
    user_id         \* session['user_id'] of the client's cookie, or NoUser

appvars == <<content, sections, sessions, served, output_file, user_id>>

vars == <<pc, api_key, model_name, model, idx, attempts, listing, calls,
          upstream, outcome, response_text, matches, appvars>>

(***************************************************************************)
(* Python string primitives, on sequences of characters.                   *)
(***************************************************************************)
Whitespace == {" ", "\t", "\n", "\r"}

LowerAlpha == <<"a","b","c","d","e","f","g","h","i","j","k","l","m",
                "n","o","p","q","r","s","t","u","v","w","x","y","z">>

UpperAlpha == <<"A","B","C","D","E","F","G","H","I","J","K","L","M",
                "N","O","P","Q","R","S","T","U","V","W","X","Y","Z">>

IsUpper(c) == \E i \in 1..26 : UpperAlpha[i] = c

IsLower(c) == \E i \in 1..26 : LowerAlpha[i] = c

IsCased(c) == IsUpper(c) \/ IsLower(c)

ToLower(c) == IF IsUpper(c) THEN LowerAlpha[CHOOSE i \in 1..26 : UpperAlpha[i] = c] ELSE c

ToUpper(c) == IF IsLower(c) THEN UpperAlpha[CHOOSE i \in 1..26 : LowerAlpha[i] = c] ELSE c

\* Lower left out: a case-sensitive comparison
LowerSkipped(s) == s

\* str.lower()
Lower(s) == [i \in 1..Len(s) |-> ToLower(s[i])]

\* str.title(): a cased character is upper-cased when it follows an uncased
\* one (or starts the string) and lower-cased otherwise.
Title(s) ==
    [i \in 1..Len(s) |->
        IF ~IsCased(s[i]) THEN s[i]
        ELSE IF i > 1 /\ IsCased(s[i-1]) THEN ToLower(s[i])
        ELSE ToUpper(s[i])]

RECURSIVE LStrip(_)
\* str.lstrip()
LStrip(s) == IF s # <<>> /\ Head(s) \in Whitespace THEN LStrip(Tail(s)) ELSE s

RECURSIVE RStrip(_)
\* str.rstrip()
RStrip(s) ==
    IF s # <<>> /\ s[Len(s)] \in Whitespace THEN RStrip(SubSeq(s, 1, Len(s) - 1)) ELSE s

\* str.strip()
Strip(s) == RStrip(LStrip(s))

\* str.startswith(prefix)
StartsWith(s, prefix) ==
    Len(s) >= Len(prefix) /\ SubSeq(s, 1, Len(prefix)) = prefix

\* str.find(sub): the leftmost occurrence, 0 when there is none
Find(s, sub) ==
    LET at == {i \in 1..(Len(s) - Len(sub) + 1) : SubSeq(s, i, i + Len(sub) - 1) = sub}
    IN  IF at = {} THEN 0 ELSE CHOOSE i \in at : \A j \in at : i <= j

RECURSIVE Split(_, _)
\* str.split(sep): cut at each leftmost non-overlapping occurrence of sep
Split(s, sep) ==
    LET i == Find(s, sep)
    IN  IF i = 0 THEN <<s>>
        ELSE <<SubSeq(s, 1, i - 1)>> \o Split(SubSeq(s, i + Len(sep), Len(s)), sep)

RECURSIVE Replace(_, _, _)
\* str.replace(old, new): every non-overlapping occurrence, left to right
Replace(s, old, new) ==
    LET i == Find(s, old)
    IN  IF i = 0 THEN s
        ELSE SubSeq(s, 1, i - 1) \o new \o Replace(SubSeq(s, i + Len(old), Len(s)), old, new)

(***************************************************************************)
(* GeminiService._parse_matching_table                                     *)
(***************************************************************************)
TagRequirement == <<"R","E","Q","U","I","R","E","M","E","N","T",":">>

TagCapability == <<"C","A","P","A","B","I","L","I","T","Y",":">>

TagMatch == <<"M","A","T","C","H",":">>

TagNotes == <<"N","O","T","E","S",":">>

Delimiter == <<"-","-","-">>

Newline == <<"\n">>

StrongWords == {<<"s","t","r","o","n","g">>,
                <<"e","x","c","e","l","l","e","n","t">>,
                <<"h","i","g","h">>}

MediumWords == {<<"m","e","d","i","u","m">>,
                <<"m","o","d","e","r","a","t","e">>,
                <<"a","v","e","r","a","g","e">>,
                <<"a","d","e","q","u","a","t","e">>}

WeakWords == {<<"w","e","a","k">>, <<"l","o","w">>, <<"p","o","o","r">>,
              <<"l","i","m","i","t","e","d">>}

NoneWords == {<<"n","o","n","e">>, <<"m","i","s","s","i","n","g">>, <<"n","o">>,
              <<"a","b","s","e","n","t">>,
              <<"n","o","t"," ","a","v","a","i","l","a","b","l","e">>}

Strong == <<"S","t","r","o","n","g">>

Medium == <<"M","e","d","i","u","m">>

Weak == <<"W","e","a","k">>

None == <<"N","o","n","e">>

DefaultCapability ==
    <<"C","a","p","a","b","i","l","i","t","y"," ","a","s","s","e","s","s","m","e","n","t",
      " ","p","e","n","d","i","n","g">>

DefaultNotes ==
    <<"N","o"," ","a","d","d","i","t","i","o","n","a","l"," ","n","o","t","e","s">>

\* match_data = {}
EmptyData == [k \in {} |-> <<>>]

\* match_data[key] = value
Put(match_data, key, value) == (key :> value) @@ match_data

\* line.replace(tag, '').strip()
FieldValue(line, tag) == Strip(Replace(line, tag, <<>>))

\* the if / elif chain that normalizes the match strength
NormalizeMatch(match_strength) ==
    IF match_strength \in StrongWords THEN Strong
    ELSE IF match_strength \in MediumWords THEN Medium
    ELSE IF match_strength \in WeakWords THEN Weak
    ELSE IF match_strength \in NoneWords THEN None
    ELSE Title(match_strength)

\* the body of "for line in lines"
ParseLine(match_data, line) ==
    IF StartsWith(line, TagRequirement)
        THEN Put(match_data, "requirement", FieldValue(line, TagRequirement))
    ELSE IF StartsWith(line, TagCapability)
        THEN Put(match_data, "capability", FieldValue(line, TagCapability))
    ELSE IF StartsWith(line, TagMatch)
        THEN Put(match_data, "match", NormalizeMatch(Lower(FieldValue(line, TagMatch))))
    ELSE IF StartsWith(line, TagNotes)
        THEN Put(match_data, "notes", FieldValue(line, TagNotes))
    ELSE match_data

RECURSIVE ParseLines(_, _)
\* "for line in lines", from match_data
ParseLines(lines, match_data) ==
    IF lines = <<>> THEN match_data
    ELSE ParseLines(Tail(lines), ParseLine(match_data, Head(lines)))

\* HasRequired with "or" for "and"
HasRequiredEither(match_data) ==
    /\ DOMAIN match_data # {}
    /\ ("requirement" \in DOMAIN match_data \/ "match" \in DOMAIN match_data)

\* the validation of the minimum required fields
HasRequired(match_data) ==
    /\ DOMAIN match_data # {}
    /\ "requirement" \in DOMAIN match_data
    /\ "match" \in DOMAIN match_data

\* WithDefaults without the capability default
WithDefaultsNotesOnly(match_data) ==
    IF "notes" \notin DOMAIN match_data
        THEN Put(match_data, "notes", DefaultNotes)
        ELSE match_data

\* the defaults for the missing fields
WithDefaults(match_data) ==
    LET d1 == IF "capability" \notin DOMAIN match_data
                 THEN Put(match_data, "capability", DefaultCapability)
                 ELSE match_data
    IN  IF "notes" \notin DOMAIN d1 THEN Put(d1, "notes", DefaultNotes) ELSE d1

\* ParseEntry with match_data = {} hoisted out of the loop
ParseEntryCarried(acc, entry) ==
    IF Strip(entry) = <<>> THEN acc
    ELSE LET match_data == ParseLines(Split(Strip(entry), Newline),
                                      IF acc = <<>> THEN EmptyData ELSE acc[Len(acc)])
         IN  IF HasRequired(match_data)
                 THEN Append(acc, WithDefaults(match_data))
                 ELSE acc

\* the body of "for entry in entries": the records list after this entry
ParseEntry(acc, entry) ==
    IF Strip(entry) = <<>> THEN acc
    ELSE LET match_data == ParseLines(Split(Strip(entry), Newline), EmptyData)
         IN  IF HasRequired(match_data)
                 THEN Append(acc, WithDefaults(match_data))
                 ELSE acc

RECURSIVE ParseEntries(_, _)
\* "for entry in entries", from the records collected so far
ParseEntries(entries, acc) ==
    IF entries = <<>> THEN acc
    ELSE ParseEntries(Tail(entries), ParseEntry(acc, Head(entries)))

parse_matching_table(text) == ParseEntries(Split(text, Delimiter), <<>>)

(***************************************************************************)
(* Replies handed to the parser: up to MaxPieces pieces in any order, and  *)
(* the two-block reply of the documented scenario.                         *)
(***************************************************************************)
MaxPieces == 4

PieceReq == TagRequirement \o <<" ","a"," "," ","b","\n">>

PiecePair == TagRequirement \o <<" ","c","\n">> \o TagMatch \o <<" ","H","i","g","h","\n">>

PieceCap == TagCapability \o <<" ","d","\n">>

PieceMatch == TagMatch \o <<" ","n","o","\n">>

PieceNotes == TagNotes \o <<" ","e"," ">> \o TagNotes \o <<" ","f","\n">>

PieceDelim == Delimiter \o Newline

PieceBlank == TagRequirement \o <<" "," ","\n">>

PieceText == <<"x"," ","y","\n">>

Pieces == {PieceReq, PiecePair, PieceCap, PieceMatch, PieceNotes, PieceDelim,
           PieceBlank, PieceText}

RECURSIVE Concat(_)
Concat(ss) == IF ss = <<>> THEN <<>> ELSE Head(ss) \o Concat(Tail(ss))

ScenarioReply ==
    TagRequirement \o <<" ","M","u","s","t"," ","s","u","p","p","o","r","t"," ","S","S","O","\n">>
    \o TagCapability \o <<" ","H","a","s"," ","S","A","M","L"," ","i","n","t","e","g","r","a","t","i","o","n","\n">>
    \o TagMatch \o <<" ","e","x","c","e","l","l","e","n","t","\n">>
    \o TagNotes \o <<" ","n","o","n","e","\n">>
    \o Delimiter \o Newline
    \o TagRequirement \o <<" ","2","4","/","7"," ","s","u","p","p","o","r","t","\n">>
    \o TagMatch \o <<" ","n","o","\n">>
    \o Delimiter

TableReplies ==
    {Concat(ps) : ps \in UNION {[1..n -> Pieces] : n \in 0..MaxPieces}} \cup {ScenarioReply}

NoModel == "NoModel"

NotListed == [status |-> "not_listed", models |-> <<>>]

NoOutcome == [kind |-> "none"]

\* the service state is not involved in a direct call of the parser
ServiceIdle ==
    /\ api_key = TRUE
    /\ model_name = "gemini-2.0-flash"
    /\ model = NoModel
    /\ idx = 0
    /\ attempts = <<>>
    /\ listing = NotListed
    /\ calls = 0
    /\ upstream = NoOutcome
    /\ outcome = NoOutcome

NoFile == [kind |-> "none"]

\* 'user_id' not in session
NoUser == <<>>

\* the web application has handled nothing yet
AppIdle ==
    /\ content = <<>>
    /\ sections = <<>>
    /\ sessions = <<>>
    /\ served = NoOutcome
    /\ output_file = NoFile
    /\ user_id = NoUser

InitTable ==
    /\ pc = "reply"
    /\ response_text \in TableReplies
    /\ matches = <<>>
    /\ ServiceIdle
    /\ AppIdle

\* one call of _parse_matching_table(response_text)
ParseReply ==
    /\ pc = "reply"
    /\ matches' = parse_matching_table(response_text)
    /\ pc' = "parsed"
    /\ UNCHANGED <<api_key, model_name, model, idx, attempts, listing, calls,
                   upstream, outcome, response_text>>
    /\ UNCHANGED appvars

NextParse == ParseReply

SpecTable == InitTable /\ [][NextParse]_vars

(***************************************************************************)
(* The reply as the claims describe it: its blocks, their tagged lines.    *)
(***************************************************************************)
BlocksOf(text) == Split(text, Delimiter)

LinesOf(block) == Split(Strip(block), Newline)

HasTagLine(block, tag) ==
    LET ls == LinesOf(block)
    IN  \E i \in 1..Len(ls) : StartsWith(ls[i], tag)

Qualifies(block) == HasTagLine(block, TagRequirement) /\ HasTagLine(block, TagMatch)

QualifyingBlocks(text) == SelectSeq(BlocksOf(text), Qualifies)

\* C5: a block yields a record if and only if a REQUIREMENT: line and a
\* MATCH: line were captured in it, whatever its CAPABILITY: / NOTES: lines:
\* the reply yields as many records as it has such blocks.
C5_RecordIffRequirementAndMatch ==
    pc = "parsed" => Len(matches) = Len(QualifyingBlocks(response_text))

\* a parsed reply with a block that has CAPABILITY: and NOTES: but no
\* REQUIREMENT:, beside a block that has only REQUIREMENT: and MATCH:
C5_Witness ==
    /\ pc = "parsed"
    /\ Len(matches) = 1
    /\ \E i \in 1..Len(BlocksOf(response_text)) :
          LET b == BlocksOf(response_text)[i]
          IN  /\ ~HasTagLine(b, TagRequirement)
              /\ HasTagLine(b, TagMatch)
              /\ HasTagLine(b, TagCapability)
    /\ \E i \in 1..Len(BlocksOf(response_text)) :
          LET b == BlocksOf(response_text)[i]
          IN  /\ Qualifies(b)
              /\ ~HasTagLine(b, TagCapability)
              /\ ~HasTagLine(b, TagNotes)

\* C6: every returned record has a non-empty requirement.
C6_RequirementNonEmpty ==
    pc = "parsed" => \A i \in 1..Len(matches) : matches[i].requirement # <<>>

TagLines(block, tag) ==
    LET ls == LinesOf(block)
    IN  {ls[i] : i \in {j \in 1..Len(ls) : StartsWith(ls[j], tag)}}

AllFields == {"requirement", "capability", "match", "notes"}

ScenarioRecords ==
    << [requirement |-> <<"M","u","s","t"," ","s","u","p","p","o","r","t"," ","S","S","O">>,
        capability |-> <<"H","a","s"," ","S","A","M","L"," ","i","n","t","e","g","r","a","t","i","o","n">>,
        match |-> <<"S","t","r","o","n","g">>,
        notes |-> <<"n","o","n","e">>],
       [requirement |-> <<"2","4","/","7"," ","s","u","p","p","o","r","t">>,
        capability |-> <<"C","a","p","a","b","i","l","i","t","y"," ","a","s","s","e","s","s","m","e","n","t",
                         " ","p","e","n","d","i","n","g">>,
        match |-> <<"N","o","n","e">>,
        notes |-> <<"N","o"," ","a","d","d","i","t","i","o","n","a","l"," ","n","o","t","e","s">>] >>

\* C8: a record from a block without a CAPABILITY: line carries the
\* capability placeholder, one from a block without a NOTES: line the notes
\* placeholder; every record has the four fields; the two-block scenario
\* reply yields its two documented records.
C8_MissingFieldsDefaulted ==
    pc = "parsed" =>
        LET qb == QualifyingBlocks(response_text)
        IN  /\ Len(matches) = Len(qb)
            /\ \A i \in 1..Len(matches) :
                  /\ DOMAIN matches[i] = AllFields
                  /\ ~HasTagLine(qb[i], TagCapability)
                        => matches[i].capability = DefaultCapability
                  /\ ~HasTagLine(qb[i], TagNotes)
                        => matches[i].notes = DefaultNotes
            /\ response_text = ScenarioReply => matches = ScenarioRecords

\* the scenario reply, parsed: its second block has neither CAPABILITY: nor NOTES:
C8_Witness ==
    /\ pc = "parsed"
    /\ response_text = ScenarioReply
    /\ Len(matches) = 2
    /\ ~HasTagLine(QualifyingBlocks(response_text)[2], TagCapability)
    /\ matches[2].capability = DefaultCapability

\* C9: the records are the qualifying blocks in reply order: the i-th record
\* takes every field from a line of the i-th qualifying block (or the
\* placeholder when that block has no such line), nothing is dropped as a
\* duplicate, and a reply without delimiter yields at most one record.
C9_RecordsFollowBlocks ==
    pc = "parsed" =>
        LET qb == QualifyingBlocks(response_text)
        IN  /\ Len(matches) = Len(qb)
            /\ \A i \in 1..Len(matches) :
                  /\ matches[i].requirement \in
                        {FieldValue(l, TagRequirement) : l \in TagLines(qb[i], TagRequirement)}
                  /\ matches[i].match \in
                        {NormalizeMatch(Lower(FieldValue(l, TagMatch))) : l \in TagLines(qb[i], TagMatch)}
                  /\ matches[i].capability \in
                        IF HasTagLine(qb[i], TagCapability)
                            THEN {FieldValue(l, TagCapability) : l \in TagLines(qb[i], TagCapability)}
                            ELSE {DefaultCapability}
                  /\ matches[i].notes \in
                        IF HasTagLine(qb[i], TagNotes)
                            THEN {FieldValue(l, TagNotes) : l \in TagLines(qb[i], TagNotes)}
                            ELSE {DefaultNotes}
            /\ Find(response_text, Delimiter) = 0 => Len(matches) <= 1

\* two records with the same requirement, the first from a block with a
\* CAPABILITY: line and the second from a block without one
C9_Witness ==
    /\ pc = "parsed"
    /\ Len(matches) = 2
    /\ matches[1].requirement = matches[2].requirement
    /\ matches[1].capability # DefaultCapability
    /\ matches[2].capability = DefaultCapability

\* the last line of the block that starts with the tag
LastTagLine(block, tag) ==
    LET ls == LinesOf(block)
        at == {j \in 1..Len(ls) : StartsWith(ls[j], tag)}
    IN  ls[CHOOSE j \in at : \A k \in at : j >= k]

\* the rest of the line after its leading tag, trimmed
RestAfterTag(line, tag) == Strip(SubSeq(line, Len(tag) + 1, Len(line)))

\* C10: the value stored for a tagged line is the rest of the line after the
\* leading tag, trimmed at both ends and otherwise unchanged.
C10_ValueIsRestOfLine ==
    pc = "parsed" =>
        LET qb == QualifyingBlocks(response_text)
        IN  /\ Len(matches) = Len(qb)
            /\ \A i \in 1..Len(matches) :
                  /\ matches[i].requirement =
                        RestAfterTag(LastTagLine(qb[i], TagRequirement), TagRequirement)
                  /\ HasTagLine(qb[i], TagCapability) =>
                        matches[i].capability =
                            RestAfterTag(LastTagLine(qb[i], TagCapability), TagCapability)
                  /\ HasTagLine(qb[i], TagNotes) =>
                        matches[i].notes =
                            RestAfterTag(LastTagLine(qb[i], TagNotes), TagNotes)

(***************************************************************************)
(* Replies with one block whose MATCH: value is a rating word in some      *)
(* casing, padded with whitespace, or a value outside the four word lists. *)
(***************************************************************************)
\* the rating words the documentation lists, with the rating each stands for
RatingWords ==
    { <<w, Strong>> : w \in {<<"s","t","r","o","n","g">>,
                             <<"e","x","c","e","l","l","e","n","t">>,
                             <<"h","i","g","h">>} }
    \cup
    { <<w, Medium>> : w \in {<<"m","e","d","i","u","m">>,
                             <<"m","o","d","e","r","a","t","e">>,
                             <<"a","v","e","r","a","g","e">>,
                             <<"a","d","e","q","u","a","t","e">>} }
    \cup
    { <<w, Weak>> : w \in {<<"w","e","a","k">>, <<"l","o","w">>, <<"p","o","o","r">>,
                           <<"l","i","m","i","t","e","d">>} }
    \cup
    { <<w, None>> : w \in {<<"n","o","n","e">>, <<"m","i","s","s","i","n","g">>,
                           <<"n","o">>, <<"a","b","s","e","n","t">>,
                           <<"n","o","t"," ","a","v","a","i","l","a","b","l","e">>} }

\* values outside the word lists, with their title-cased form
OtherValues ==
    { << <<"p","a","r","t","i","a","l"," ","f","i","t">>,
         <<"P","a","r","t","i","a","l"," ","F","i","t">> >>,
      << <<"n","/","a">>, <<"N","/","A">> >>,
      << <<"S","T","R","O","N","G"," ","m","a","t","c","h">>,
         <<"S","t","r","o","n","g"," ","M","a","t","c","h">> >>,
      << <<"v","e","r","y","-","H","i","g","h">>, <<"V","e","r","y","-","H","i","g","h">> >>,
      << <<"n","o","t"," "," ","a","v","a","i","l","a","b","l","e">>,
         <<"N","o","t"," "," ","A","v","a","i","l","a","b","l","e">> >>,
      << <<"3","r","d">>, <<"3","R","d">> >>,
      << <<"l","o","w",".">>, <<"L","o","w",".">> >>,
      << <<>>, <<>> >> }

Casings == {"lower", "upper", "first", "last"}

\* the word in one of the casings
Cased(w, casing) ==
    [i \in 1..Len(w) |->
        IF \/ casing = "upper"
           \/ casing = "first" /\ i = 1
           \/ casing = "last" /\ i = Len(w)
        THEN ToUpper(w[i]) ELSE w[i]]

Paddings == {<<>>, <<" ">>, <<"\t"," ">>}

\* the inputs of the normalization: the written value, padded, and the
\* rating the documentation gives for it
MatchCases ==
    { [value |-> Cased(rw[1], c), before |-> b, after |-> a, rating |-> rw[2]] :
        rw \in RatingWords, c \in Casings, b \in Paddings, a \in Paddings }
    \cup
    { [value |-> ov[1], before |-> b, after |-> a, rating |-> ov[2]] :
        ov \in OtherValues, b \in Paddings, a \in Paddings }

MatchReply(case) ==
    TagRequirement \o <<" ","r","\n">> \o TagMatch \o case.before \o case.value \o case.after

InitMatch ==
    /\ pc = "reply"
    /\ response_text \in {MatchReply(c) : c \in MatchCases}
    /\ matches = <<>>
    /\ ServiceIdle
    /\ AppIdle

SpecMatch == InitMatch /\ [][NextParse]_vars

\* C7: normalization is case-insensitive and total: a MATCH value that is,
\* lower-cased and trimmed, one of the listed words yields that list's
\* rating (Strong, Medium, Weak, None); any other value yields its
\* title-cased form, and the block still yields its record.
C7_MatchNormalized ==
    pc = "parsed" =>
        \A c \in MatchCases :
            response_text = MatchReply(c) =>
                Len(matches) = 1 /\ matches[1].match = c.rating

\* "HIGH" was normalized to Strong
C7_Witness ==
    /\ pc = "parsed"
    /\ response_text = TagRequirement \o <<" ","r","\n">> \o TagMatch \o <<" ","H","I","G","H">>
    /\ Len(matches) = 1
    /\ matches[1].match = Strong

(***************************************************************************)
(* GeminiService.__init__: model resolution                                *)
(***************************************************************************)
DefaultModel == "gemini-2.0-flash"

fallback_models ==
    <<"gemini-2.0-flash", "gemini-1.5-flash", "gemini-1.5-pro", "gemini-1.0-pro",
      "models/gemini-1.5-flash", "models/gemini-1.5-pro", "models/gemini-1.0-pro">>

\* models_to_try without the filter on the fallback list
ModelsToTryUnfiltered(name) == <<name>> \o fallback_models

\* models_to_try = [model_name] + [m for m in fallback_models if m != model_name]
ModelsToTry(name) ==
    LET Other(m) == m # name
    IN  <<name>> \o SelectSeq(fallback_models, Other)

\* the values of GEMINI_MODEL: unset (the default), a later fallback entry, a
\* name outside the fallback list
ModelNames == {DefaultModel, "gemini-1.5-pro", "gemini-x"}

\* what one pass of the loop can meet: GenerativeModel(model) raises, the
\* "Hello" request raises, or both succeed
TryResults == {"bind_fails", "probe_fails", "ok"}

MaxListed == 2

GenerateContent == "generateContent"

\* models the service may list, with their supported_generation_methods
ListedModels ==
    { [name |-> "models/gemini-pro", methods |-> {GenerateContent, "countTokens"}],
      [name |-> "models/embedding-001", methods |-> {"embedContent"}],
      [name |-> "models/gemini-2.5-flash", methods |-> {GenerateContent}] }

ListError == [status |-> "error", models |-> <<>>]

\* what genai.list_models() can produce: it raises, or it returns models
ListingResults ==
    {ListError} \cup
    {[status |-> "listed", models |-> ms] :
        ms \in UNION {[1..n -> ListedModels] : n \in 0..MaxListed}}

\* model_names: the names of the listed models that support generateContent
GenerationCapable(available_models) ==
    LET Supports(m) == GenerateContent \in m.methods
        capable == SelectSeq(available_models, Supports)
    IN  [i \in 1..Len(capable) |-> capable[i].name]

Init ==
    /\ pc = "new"
    /\ api_key \in BOOLEAN
    /\ model_name \in ModelNames
    /\ model = NoModel
    /\ idx = 0
    /\ attempts = <<>>
    /\ listing = NotListed
    /\ calls = 0
    /\ upstream = NoOutcome
    /\ outcome = NoOutcome
    /\ response_text = <<>>
    /\ matches = <<>>
    /\ AppIdle

\* the API key check, and the set-up of the loop
Configure ==
    /\ pc = "new"
    /\ IF api_key
          THEN /\ pc' = "loop"
               /\ idx' = 1
               /\ outcome' = outcome
          ELSE /\ pc' = "raised"
               /\ idx' = idx
               /\ outcome' = [kind |-> "raise", op |-> "__init__", error |-> "ValueError"]
    /\ model' = NoModel
    /\ UNCHANGED <<api_key, model_name, attempts, listing, calls, upstream,
                   response_text, matches>>
    /\ UNCHANGED appvars

\* one pass of "for model in models_to_try"
TryModel ==
    /\ pc = "loop"
    /\ \E result \in TryResults :
          LET candidate == ModelsToTry(model_name)[idx]
              last == idx = Len(ModelsToTry(model_name))
          IN  /\ attempts' = Append(attempts, [model |-> candidate,
                                               bound |-> result # "bind_fails",
                                               answered |-> result = "ok"])
              /\ model' = IF result = "bind_fails" THEN model ELSE candidate
              /\ idx' = IF result = "ok" THEN idx ELSE idx + 1
              /\ pc' = IF result = "ok" \/ last THEN "after_loop" ELSE "loop"
    /\ UNCHANGED <<api_key, model_name, listing, calls, upstream, outcome,
                   response_text, matches>>
    /\ UNCHANGED appvars

\* "if self.model is None" is false: construction completes
Constructed ==
    /\ pc = "after_loop"
    /\ model # NoModel
    /\ pc' = "ready"
    /\ UNCHANGED <<api_key, model_name, model, idx, attempts, listing, calls,
                   upstream, outcome, response_text, matches>>
    /\ UNCHANGED appvars

\* "if self.model is None" is true: the listing step
ListModels ==
    /\ pc = "after_loop"
    /\ model = NoModel
    /\ \E available \in ListingResults, binds \in BOOLEAN :
          /\ listing' = available
          /\ IF /\ available.status = "listed"
                /\ GenerationCapable(available.models) # <<>>
                /\ binds
                THEN /\ model' = GenerationCapable(available.models)[1]
                     /\ pc' = "ready"
                     /\ outcome' = outcome
                ELSE /\ model' = model
                     /\ pc' = "raised"
                     /\ outcome' = [kind |-> "raise", op |-> "__init__", error |-> "Exception"]
    /\ UNCHANGED <<api_key, model_name, idx, attempts, calls, upstream,
                   response_text, matches>>
    /\ UNCHANGED appvars

(***************************************************************************)
(* The four generation operations                                          *)
(***************************************************************************)
MaxCalls == 1

\* messages the upstream service fails with
UpstreamErrors == {<<"4","2","9"," ","q","u","o","t","a">>, <<"t","i","m","e","o","u","t">>}

\* reply texts the upstream service answers with
ReplyTexts == {ScenarioReply, PieceText}

\* what self.model.generate_content(prompt) and response.text can do: the
\* call raises, the response has no text (reading .text raises), or it has text
UpstreamResults ==
    {[kind |-> "error", msg |-> m, text |-> <<>>] : m \in UpstreamErrors}
    \cup {[kind |-> "notext", msg |-> m, text |-> <<>>] : m \in UpstreamErrors}
    \cup {[kind |-> "text", msg |-> <<>>, text |-> t] : t \in ReplyTexts}

PrefixRfp ==
    <<"E","r","r","o","r"," ","a","n","a","l","y","z","i","n","g"," ","R","F","P",
      " ","w","i","t","h"," ","G","e","m","i","n","i",":"," ">>

PrefixOrganization ==
    <<"E","r","r","o","r"," ","a","n","a","l","y","z","i","n","g"," ",
      "o","r","g","a","n","i","z","a","t","i","o","n",
      " ","w","i","t","h"," ","G","e","m","i","n","i",":"," ">>

PrefixMatching ==
    <<"E","r","r","o","r"," ","c","r","e","a","t","i","n","g"," ",
      "m","a","t","c","h","i","n","g"," ","t","a","b","l","e",
      " ","w","i","t","h"," ","G","e","m","i","n","i",":"," ">>

PrefixPrompt ==
    <<"E","r","r","o","r"," ","g","e","n","e","r","a","t","i","n","g"," ",
      "r","e","s","p","o","n","s","e"," ","p","r","o","m","p","t",
      " ","w","i","t","h"," ","G","e","m","i","n","i",":"," ">>

\* the message without the upstream error
ErrorMessageBare(prefix, e) == prefix

\* f"<prefix>{str(e)}"
ErrorMessage(prefix, e) == prefix \o e

\* try: response = self.model.generate_content(prompt); return response.text
\* except Exception as e: raise Exception(f"<prefix>{str(e)}")
Generate(op, prefix) ==
    /\ pc = "ready"
    /\ calls < MaxCalls
    /\ \E up \in UpstreamResults :
          /\ upstream' = up
          /\ outcome' = IF up.kind = "text"
                           THEN [kind |-> "return", op |-> op, value |-> up.text]
                           ELSE [kind |-> "raise", op |-> op,
                                 value |-> ErrorMessage(prefix, up.msg)]
    /\ calls' = calls + 1
    /\ UNCHANGED <<pc, api_key, model_name, model, idx, attempts, listing,
                   response_text, matches>>
    /\ UNCHANGED appvars

analyze_rfp == Generate("analyze_rfp", PrefixRfp)

analyze_organization == Generate("analyze_organization", PrefixOrganization)

generate_response_prompt == Generate("generate_response_prompt", PrefixPrompt)

\* as Generate, with the text handed to _parse_matching_table
create_matching_table ==
    /\ pc = "ready"
    /\ calls < MaxCalls
    /\ \E up \in UpstreamResults :
          /\ upstream' = up
          /\ IF up.kind = "text"
                THEN /\ response_text' = up.text
                     /\ matches' = parse_matching_table(up.text)
                     /\ outcome' = [kind |-> "return", op |-> "create_matching_table",
                                    value |-> matches']
                ELSE /\ UNCHANGED <<response_text, matches>>
                     /\ outcome' = [kind |-> "raise", op |-> "create_matching_table",
                                    value |-> ErrorMessage(PrefixMatching, up.msg)]
    /\ calls' = calls + 1
    /\ UNCHANGED <<pc, api_key, model_name, model, idx, attempts, listing>>
    /\ UNCHANGED appvars

Next ==
    \/ Configure
    \/ TryModel
    \/ Constructed
    \/ ListModels
    \/ analyze_rfp
    \/ analyze_organization
    \/ create_matching_table
    \/ generate_response_prompt

Spec == Init /\ [][Next]_vars

(***************************************************************************)
(* Claims about model resolution                                           *)
(***************************************************************************)
\* position of a name in the fallback list, 0 when it is not in it
FallbackPosition(m) ==
    IF \E i \in 1..Len(fallback_models) : fallback_models[i] = m
        THEN CHOOSE i \in 1..Len(fallback_models) : fallback_models[i] = m
        ELSE 0

Succeeded(a) == a.bound /\ a.answered

\* C1: the candidates are tried in the order preferred model, then the
\* fallback list without the preferred model, in fallback order and without
\* gaps; an attempt that bound and answered the probe is the last attempt
\* ever made, and its model is the active handle.
C1_CandidateOrderFirstSuccessWins ==
    /\ \A i \in 1..Len(attempts) :
          /\ i = 1 => attempts[i].model = model_name
          /\ i > 1 =>
                /\ attempts[i].model # model_name
                /\ FallbackPosition(attempts[i].model) > 0
                /\ \A k \in 1..(FallbackPosition(attempts[i].model) - 1) :
                      fallback_models[k] # model_name =>
                          \E j \in 2..(i - 1) : attempts[j].model = fallback_models[k]
                /\ \A j \in 2..(i - 1) :
                      FallbackPosition(attempts[j].model) < FallbackPosition(attempts[i].model)
          /\ Succeeded(attempts[i]) =>
                /\ i = Len(attempts)
                /\ model = attempts[i].model
                /\ pc \in {"after_loop", "ready"}
    /\ pc = "loop" => idx = Len(attempts) + 1

\* the documented scenario: the preferred model and the first fallback fail,
\* the second fallback succeeds and is the handle of the constructed service
C1_Witness ==
    /\ pc = "ready"
    /\ model_name = "gemini-x"
    /\ Len(attempts) = 3
    /\ ~Succeeded(attempts[1]) /\ attempts[1].bound
    /\ ~Succeeded(attempts[2])
    /\ Succeeded(attempts[3])
    /\ model = "gemini-1.5-flash"

NoneSucceeded == \A i \in 1..Len(attempts) : ~Succeeded(attempts[i])

\* C2: when no candidate succeeded, bind or probe failing alike, the
\* constructor has queried the listing once it is over, and a service it
\* constructed is bound to the first generation-capable model listed.
C2_ListingWhenNoCandidateSucceeds ==
    (pc \in {"ready", "raised"} /\ api_key /\ NoneSucceeded) =>
        /\ listing # NotListed
        /\ pc = "ready" =>
              /\ listing.status = "listed"
              /\ GenerationCapable(listing.models) # <<>>
              /\ model = GenerationCapable(listing.models)[1]

\* C3: a constructed service holds a candidate that bound and answered the
\* probe, or the first generation-capable model of the listing; never a
\* candidate whose probe failed.
C3_ConstructedOnlyWithWorkingHandle ==
    pc = "ready" =>
        \/ \E i \in 1..Len(attempts) : Succeeded(attempts[i]) /\ model = attempts[i].model
        \/ /\ listing.status = "listed"
           /\ GenerationCapable(listing.models) # <<>>
           /\ model = GenerationCapable(listing.models)[1]

(***************************************************************************)
(* Claims about the generation operations                                  *)
(***************************************************************************)
\* C4: an invocation makes exactly one upstream call and leaves the handle
\* alone; when the call or the reading of its text fails, the operation
\* raises an error whose message contains the upstream message, and returns
\* otherwise.
C4_OneCallErrorWrapped ==
    [][pc = "ready" =>
          /\ calls' = calls + 1
          /\ model' = model
          /\ pc' = "ready"
          /\ upstream'.kind \in {"error", "notext"} =>
                /\ outcome'.kind = "raise"
                /\ Find(outcome'.value, upstream'.msg) > 0
          /\ upstream'.kind = "text" => outcome'.kind = "return"]_vars

\* create_matching_table raised after the upstream call failed on quota
C4_Witness ==
    /\ pc = "ready"
    /\ calls = 1
    /\ upstream.kind = "error"
    /\ upstream.msg = <<"4","2","9"," ","q","u","o","t","a">>
    /\ outcome.kind = "raise"
    /\ outcome.op = "create_matching_table"

(***************************************************************************)
(* Replies in which "---" also occurs inside the text of a tagged line     *)
(***************************************************************************)
PieceNotesDash == TagNotes \o <<" ","n","-","-","-","m","\n">>

DashPieces == {PiecePair, PieceCap, PieceNotesDash, PieceDelim}

DashReplies == {Concat(ps) : ps \in UNION {[1..n -> DashPieces] : n \in 0..MaxPieces}}

InitDash ==
    /\ pc = "reply"
    /\ response_text \in DashReplies
    /\ matches = <<>>
    /\ ServiceIdle
    /\ AppIdle

SpecDash == InitDash /\ [][NextParse]_vars

RECURSIVE GroupLines(_, _, _)
\* the lines grouped into blocks, a block ending at a line that is only "---"
GroupLines(lines, current, done) ==
    IF lines = <<>> THEN Append(done, current)
    ELSE IF Head(lines) = Delimiter
        THEN GroupLines(Tail(lines), <<>>, Append(done, current))
        ELSE GroupLines(Tail(lines), Append(current, Head(lines)), done)

\* the blocks of a reply whose only separator is a line containing only "---"
LineBlocks(text) == GroupLines(Split(text, Newline), <<>>, <<>>)

LinesWithTag(lines, tag) == SelectSeq(lines, LAMBDA l : StartsWith(l, tag))

LineBlockQualifies(lines) ==
    LinesWithTag(lines, TagRequirement) # <<>> /\ LinesWithTag(lines, TagMatch) # <<>>

LastOf(seq) == seq[Len(seq)]

\* C11: only a line that is just "---" separates blocks: "---" inside the
\* text of a tagged line ends no block, so the records are those of the
\* line-separated blocks, each with the capability and notes of its own
\* tagged lines, the text around the inner "---" included.
C11_OnlyDelimiterLinesSeparate ==
    pc = "parsed" =>
        LET lb == SelectSeq(LineBlocks(response_text), LineBlockQualifies)
        IN  /\ Len(matches) = Len(lb)
            /\ \A i \in 1..Len(matches) :
                  /\ LinesWithTag(lb[i], TagCapability) # <<>> =>
                        matches[i].capability =
                            FieldValue(LastOf(LinesWithTag(lb[i], TagCapability)), TagCapability)
                  /\ LinesWithTag(lb[i], TagNotes) # <<>> =>
                        matches[i].notes =
                            FieldValue(LastOf(LinesWithTag(lb[i], TagNotes)), TagNotes)

(***************************************************************************)
(* DocumentGenerator._parse_content_sections                               *)
(***************************************************************************)
\* the character U+2022 (bullet), one element of a text like any other
BulletChar == "U+2022"

HeadingKeywords ==
    << <<"o","v","e","r","v","i","e","w">>,
       <<"e","x","e","c","u","t","i","v","e"," ","s","u","m","m","a","r","y">>,
       <<"i","n","t","r","o","d","u","c","t","i","o","n">>,
       <<"c","o","n","c","l","u","s","i","o","n">>,
       <<"r","e","q","u","i","r","e","m","e","n","t","s">>,
       <<"a","p","p","r","o","a","c","h">>,
       <<"m","e","t","h","o","d","o","l","o","g","y">>,
       <<"t","i","m","e","l","i","n","e">>,
       <<"b","u","d","g","e","t">>,
       <<"t","e","a","m">> >>

BulletMarkers ==
    << <<BulletChar>>, <<"-">>, <<"*">>, <<"1",".">>, <<"2",".">>, <<"3",".">>,
       <<"4",".">>, <<"5",".">> >>

HeadingLimit == 100

\* str.isupper(): some cased character, and no lower-case one
IsUpperStr(s) ==
    /\ \E i \in 1..Len(s) : IsUpper(s[i])
    /\ \A i \in 1..Len(s) : ~IsLower(s[i])

\* sub in s
Contains(s, sub) == Find(s, sub) > 0

\* the heading test
IsHeading(line) ==
    /\ Len(line) < HeadingLimit
    /\ \/ IsUpperStr(line)
       \/ LET low == Lower(line)
          IN  \E k \in 1..Len(HeadingKeywords) : Contains(low, HeadingKeywords[k])

\* line.startswith((...markers...))
IsBullet(line) == \E k \in 1..Len(BulletMarkers) : StartsWith(line, BulletMarkers[k])

\* ClassifyLine with the bullet test ahead of the heading test
ClassifyLineBulletFirst(line) ==
    IF IsBullet(line) THEN "bullet"
    ELSE IF IsHeading(line) THEN "heading"
    ELSE "paragraph"

\* the if / elif / else on the trimmed line
ClassifyLine(line) ==
    IF IsHeading(line) THEN "heading"
    ELSE IF IsBullet(line) THEN "bullet"
    ELSE "paragraph"

\* ParseSectionLine without the "if not line: continue"
ParseSectionLineKeepBlank(acc, raw) ==
    LET line == Strip(raw)
    IN  Append(acc, [type |-> ClassifyLine(line), text |-> line])

\* the body of "for line in lines": the sections after this line
ParseSectionLine(acc, raw) ==
    LET line == Strip(raw)
    IN  IF line = <<>> THEN acc
        ELSE Append(acc, [type |-> ClassifyLine(line), text |-> line])

RECURSIVE ParseSectionLines(_, _)
ParseSectionLines(lines, acc) ==
    IF lines = <<>> THEN acc
    ELSE ParseSectionLines(Tail(lines), ParseSectionLine(acc, Head(lines)))

parse_content_sections(text) == ParseSectionLines(Split(text, Newline), <<>>)

\* one call of _parse_content_sections(content)
ParseSections ==
    /\ pc = "content"
    /\ sections' = parse_content_sections(content)
    /\ pc' = "sectioned"
    /\ UNCHANGED <<api_key, model_name, model, idx, attempts, listing, calls,
                   upstream, outcome, response_text, matches>>
    /\ UNCHANGED <<content, sessions, served, output_file, user_id>>

NextSections == ParseSections

\* the rest of the application is not involved in a direct call
OthersIdle ==
    /\ response_text = <<>>
    /\ matches = <<>>
    /\ sessions = <<>>
    /\ served = NoOutcome
    /\ output_file = NoFile
    /\ user_id = NoUser
    /\ ServiceIdle

(***************************************************************************)
(* Single lines: an optional prefix, a body, and a filling of dots up to   *)
(* a length around the heading limit.                                      *)
(***************************************************************************)
\* prefixes, with whether each starts with a bullet marker
LinePrefixes ==
    { [text |-> <<>>, bullet |-> FALSE],
      [text |-> <<BulletChar, " ">>, bullet |-> TRUE],
      [text |-> <<"-"," ">>, bullet |-> TRUE],
      [text |-> <<"-">>, bullet |-> TRUE],
      [text |-> <<"*"," ">>, bullet |-> TRUE],
      [text |-> <<"1","."," ">>, bullet |-> TRUE],
      [text |-> <<"5","."," ">>, bullet |-> TRUE],
      [text |-> <<"6","."," ">>, bullet |-> FALSE],
      [text |-> <<">"," ">>, bullet |-> FALSE] }

\* bodies, with whether each is upper-case and whether it holds a keyword
LineBodies ==
    { [text |-> <<"E","X","E","C","U","T","I","V","E"," ","S","U","M","M","A","R","Y">>,
       upper |-> TRUE, keyword |-> TRUE],
      [text |-> <<"P","R","I","C","I","N","G">>, upper |-> TRUE, keyword |-> FALSE],
      [text |-> <<"P","r","o","v","i","d","e"," ","2","4","/","7"," ","s","u","p","p","o","r","t">>,
       upper |-> FALSE, keyword |-> FALSE],
      [text |-> <<"W","e"," ","w","i","l","l"," ","d","e","l","i","v","e","r"," ","t","h","e"," ",
                  "p","r","o","j","e","c","t"," ","o","n"," ","t","i","m","e",".">>,
       upper |-> FALSE, keyword |-> FALSE],
      [text |-> <<"P","r","o","j","e","c","t"," ","T","i","m","e","l","i","n","e">>,
       upper |-> FALSE, keyword |-> TRUE],
      [text |-> <<"O","u","r"," ","s","t","e","a","m"," ","p","l","a","n","t">>,
       upper |-> FALSE, keyword |-> TRUE],
      [text |-> <<"2","4","/","7">>, upper |-> FALSE, keyword |-> FALSE] }

\* total lengths the line is filled up to (0: not filled)
FillLengths == {0, HeadingLimit - 1, HeadingLimit, HeadingLimit + 1}

Filled(text, n) == text \o [i \in 1..(n - Len(text)) |-> "."]

ClassifyCases ==
    { [prefix |-> p, body |-> b, fill |-> n] :
        p \in LinePrefixes, b \in LineBodies, n \in FillLengths }

CaseLine(c) == Filled(c.prefix.text \o c.body.text, c.fill)

InitClassify ==
    /\ pc = "content"
    /\ content \in {CaseLine(c) : c \in ClassifyCases}
    /\ sections = <<>>
    /\ OthersIdle

SpecClassify == InitClassify /\ [][NextSections]_vars

\* the kind the documented priority order gives the line of a case
CaseKind(c) ==
    IF Len(CaseLine(c)) < 100 /\ (c.body.upper \/ c.body.keyword) THEN "heading"
    ELSE IF c.prefix.bullet THEN "bullet"
    ELSE "paragraph"

\* C12: a non-blank line is a heading iff it is shorter than 100 and is
\* upper-case or holds a keyword; otherwise a bullet iff it starts with a
\* marker; otherwise a paragraph.  So a line passing both tests is a
\* heading and a line of length 100 or more never is.
C12_ClassificationPriority ==
    pc = "sectioned" =>
        \A c \in ClassifyCases :
            content = CaseLine(c) =>
                sections = <<[type |-> CaseKind(c), text |-> CaseLine(c)]>>

\* "- EXECUTIVE SUMMARY" passes the heading and the bullet test: a heading
C12_Witness ==
    /\ pc = "sectioned"
    /\ content = <<"-"," ","E","X","E","C","U","T","I","V","E"," ","S","U","M","M","A","R","Y">>
    /\ IsBullet(content)
    /\ Len(sections) = 1
    /\ sections[1].type = "heading"

(***************************************************************************)
(* Contents of up to MaxLines lines, blank and padded ones among them      *)
(***************************************************************************)
MaxLines == 3

\* source lines, with their trimmed form and the kind they have alone
SourceLines ==
    { [raw |-> <<>>, trimmed |-> <<>>, kind |-> "blank"],
      [raw |-> <<" ","\t">>, trimmed |-> <<>>, kind |-> "blank"],
      [raw |-> <<" ","-"," ","a"," "," ","b"," ">>, trimmed |-> <<"-"," ","a"," "," ","b">>,
       kind |-> "bullet"],
      [raw |-> <<"B","U","D","G","E","T","\r">>, trimmed |-> <<"B","U","D","G","E","T">>,
       kind |-> "heading"],
      [raw |-> <<"x"," ","y",".">>, trimmed |-> <<"x"," ","y",".">>, kind |-> "paragraph"] }

LineSeqs == UNION {[1..n -> SourceLines] : n \in 0..MaxLines}

RECURSIVE JoinLines(_)
\* the lines joined with "\n"
JoinLines(ls) ==
    IF ls = <<>> THEN <<>>
    ELSE IF Len(ls) = 1 THEN ls[1].raw
    ELSE ls[1].raw \o Newline \o JoinLines(Tail(ls))

InitSections ==
    /\ pc = "content"
    /\ content \in {JoinLines(ls) : ls \in LineSeqs}
    /\ sections = <<>>
    /\ OthersIdle

SpecSections == InitSections /\ [][NextSections]_vars

NotBlank(l) == l.kind # "blank"

\* C13: one section per line that is non-empty after trimming, in line
\* order, its text the trimmed line with nothing removed and its kind the
\* one the line has alone; blank lines give no section.
C13_OneSectionPerNonBlankLine ==
    pc = "sectioned" =>
        \A ls \in LineSeqs :
            content = JoinLines(ls) =>
                LET kept == SelectSeq(ls, NotBlank)
                IN  /\ Len(sections) = Len(kept)
                    /\ \A i \in 1..Len(sections) :
                          /\ sections[i].text = kept[i].trimmed
                          /\ sections[i].type = kept[i].kind

\* a bullet line, a blank line and the same bullet line again: two equal
\* sections that keep the marker
C13_Witness ==
    /\ pc = "sectioned"
    /\ Len(Split(content, Newline)) = 3
    /\ Strip(Split(content, Newline)[2]) = <<>>
    /\ Len(sections) = 2
    /\ sections[1] = sections[2]
    /\ sections[1].type = "bullet"
    /\ sections[1].text = <<"-"," ","a"," "," ","b">>

(***************************************************************************)
(* SessionManager.  A session is a dict: a function from its keys.  The    *)
(* created_at / updated_at / completed_at keys hold the wall-clock time,   *)
(* which nothing reads back, and are left out.                             *)
(***************************************************************************)
max_sessions == 5

\* dict.update(changes)
Updated(session, changes) == changes @@ session

\* session.get('rfp_filename') == filename
HasFilename(session, filename) ==
    "rfp_filename" \in DOMAIN session /\ session.rfp_filename = filename

\* get_current_session: sessions[0] if sessions else None
NoSession == [k \in {} |-> ""]

get_current_session(stored) == IF stored # <<>> THEN stored[1] ELSE NoSession

\* 'id': len(sessions) + 1
NewSessionId(stored) == Len(stored) + 1

\* update_rfp_data up to the save: the new list and the session it returns
RfpUpdate(stored, filename, requirements, text) ==
    LET found == {i \in 1..Len(stored) : HasFilename(stored[i], filename)}
    IN  IF found # {}
            THEN LET i == CHOOSE k \in found : \A j \in found : k <= j
                     session_data == Updated(stored[i], [rfp_requirements |-> requirements,
                                                         rfp_content |-> text])
                 IN  [sessions |-> [stored EXCEPT ![i] = session_data],
                      session_data |-> session_data]
            ELSE LET session_data == [id |-> NewSessionId(stored),
                                      rfp_filename |-> filename,
                                      rfp_requirements |-> requirements,
                                      rfp_content |-> text]
                     inserted == <<session_data>> \o stored
                 IN  [sessions |-> IF Len(inserted) > max_sessions
                                      THEN SubSeq(inserted, 1, max_sessions)
                                      ELSE inserted,
                      session_data |-> session_data]

\* update_org_data / update_output_file up to the save, on a non-empty list
CurrentUpdate(stored, changes) == [stored EXCEPT ![1] = Updated(stored[1], changes)]

\* what _save_user_sessions can leave in the file: the new list; or, when it
\* raises, the old file (open failed) or an unreadable one, read back as []
SaveModes == {"saved", "kept", "corrupt"}

Save(stored, new, mode) ==
    IF mode = "saved" THEN [saved |-> TRUE, sessions |-> new]
    ELSE IF mode = "kept" THEN [saved |-> FALSE, sessions |-> stored]
    ELSE [saved |-> FALSE, sessions |-> <<>>]

SaveResults(stored, new) == {Save(stored, new, mode) : mode \in SaveModes}

(***************************************************************************)
(* Direct calls of update_rfp_data, with six file names                    *)
(***************************************************************************)
UploadNames == {"a.pdf", "b.pdf", "c.pdf", "d.pdf", "e.pdf", "f.pdf"}

InitUploads ==
    /\ pc = "sessions"
    /\ sessions = <<>>
    /\ served = NoOutcome
    /\ content = <<>>
    /\ sections = <<>>
    /\ output_file = NoFile
    /\ user_id = NoUser
    /\ response_text = <<>>
    /\ matches = <<>>
    /\ ServiceIdle

\* one call of update_rfp_data(user_id, filename, requirements, content)
UpdateRfpData ==
    /\ pc = "sessions"
    /\ \E filename \in UploadNames :
          LET upd == RfpUpdate(sessions, filename, "requirements", "rfp text")
          IN  \E save \in SaveResults(sessions, upd.sessions) :
                 /\ sessions' = save.sessions
                 /\ served' = IF save.saved
                                 THEN [kind |-> "return", op |-> "update_rfp_data",
                                       value |-> upd.session_data]
                                 ELSE [kind |-> "raise", op |-> "update_rfp_data",
                                       value |-> NoSession]
    /\ UNCHANGED <<pc, api_key, model_name, model, idx, attempts, listing, calls,
                   upstream, outcome, response_text, matches>>
    /\ UNCHANGED <<content, sections, output_file, user_id>>

NextUploads == UpdateRfpData

SpecUploads == InitUploads /\ [][NextUploads]_vars

\* C17: after any sequence of update_rfp_data calls the stored list holds at
\* most max_sessions sessions and no two of them have the same id.
C17_AtMostFiveDistinctIds ==
    /\ Len(sessions) <= 5
    /\ \A i, j \in 1..Len(sessions) : i # j => sessions[i].id # sessions[j].id

(***************************************************************************)
(* The web application (app.py): one client's requests, each handled to    *)
(* its response.  File names are names secure_filename leaves as they are. *)
(***************************************************************************)
MsgNoFile == <<"N","o"," ","f","i","l","e"," ","s","e","l","e","c","t","e","d">>

MsgNoOrgFile ==
    <<"N","o"," ","o","r","g","a","n","i","z","a","t","i","o","n"," ",
      "f","i","l","e"," ","s","e","l","e","c","t","e","d">>

MsgUploadRfpFirst ==
    <<"P","l","e","a","s","e"," ","u","p","l","o","a","d"," ","R","F","P"," ",
      "f","i","l","e"," ","f","i","r","s","t">>

MsgNoPrompt == <<"N","o"," ","p","r","o","m","p","t"," ","p","r","o","v","i","d","e","d">>

MsgNoRfpSession ==
    <<"N","o"," ","R","F","P"," ","s","e","s","s","i","o","n"," ","f","o","u","n","d","."," ",
      "P","l","e","a","s","e"," ","u","p","l","o","a","d"," ","R","F","P"," ",
      "f","i","r","s","t",".">>

MsgNoActiveSession ==
    <<"N","o"," ","a","c","t","i","v","e"," ","s","e","s","s","i","o","n"," ",
      "f","o","u","n","d",".">>

\* str(KeyError('user_id')), raised by session['user_id']
MsgKeyError == <<"'","u","s","e","r","_","i","d","'">>

PrefixSaving ==
    <<"E","r","r","o","r"," ","s","a","v","i","n","g"," ","s","e","s","s","i","o","n","s",":"," ">>

PrefixDocx ==
    <<"E","r","r","o","r"," ","c","r","e","a","t","i","n","g"," ","D","O","C","X"," ",
      "d","o","c","u","m","e","n","t",":"," ">>

\* an error of the file system
DiskError ==
    <<"[","E","r","r","n","o"," ","2","8","]"," ","N","o"," ","s","p","a","c","e"," ",
      "l","e","f","t"," ","o","n"," ","d","e","v","i","c","e">>

\* what file.save and _extract_from_pdf raise on a file they cannot store or read
RfpFileErrors ==
    { DiskError,
      <<"E","r","r","o","r"," ","r","e","a","d","i","n","g"," ","P","D","F",":"," ",
        "E","O","F"," ","m","a","r","k","e","r"," ","n","o","t"," ","f","o","u","n","d">> }

\* what file.save and _extract_from_docx raise
OrgFileErrors ==
    { DiskError,
      <<"E","r","r","o","r"," ","r","e","a","d","i","n","g"," ","D","O","C","X"," ",
        "f","i","l","e",":"," ","P","a","c","k","a","g","e"," ","n","o","t"," ",
        "f","o","u","n","d">> }

\* the text extract_text returns
FileText == <<"t","e","x","t">>

\* str(uuid.uuid4())
NewUserId ==
    <<"1","f","0","c","9","a","2","e","-","7","b","3","d","-","4","e","5","f","-",
      "8","a","6","b","-","9","c","0","d","1","e","2","f","3","a","4","b">>

RfpFiles == {"a.pdf", "b.pdf"}

OrgFiles == {"org.docx"}

\* request.files[field]: the field is missing, the file has no name, or a
\* named file that extract_text reads or fails on
Uploads(names, errors) ==
    { [field |-> FALSE, filename |-> "", error |-> <<>>],
      [field |-> TRUE, filename |-> "", error |-> <<>>] }
    \cup {[field |-> TRUE, filename |-> n, error |-> <<>>] : n \in names}
    \cup {[field |-> TRUE, filename |-> n, error |-> e] : n \in names, e \in errors}

\* 'x_file' not in request.files, or file.filename == ''
NoFileSelected(file) == ~file.field \/ file.filename = ""

\* upstream results of a call whose text the application only passes on
AnalysisResults ==
    {r \in UpstreamResults : r.kind = "error" \/ (r.kind = "text" /\ r.text = PieceText)}

\* upstream results of the create_matching_table call
MatchingResults == {r \in UpstreamResults : r.kind # "notext"}

\* one call of a GeminiService method: the text, or the wrapped error
GenCall(prefix, up) ==
    IF up.kind = "text"
        THEN [raised |-> FALSE, value |-> up.text]
        ELSE [raised |-> TRUE, value |-> ErrorMessage(prefix, up.msg)]

\* what a handler leaves behind: the response, the stored list, and the
\* number of GeminiService calls it made
Handled(status, body, stored, n) ==
    [status |-> status, body |-> body, sessions |-> stored, gen_calls |-> n]

\* return jsonify({'error': ...}), status
Failed(status, msg, stored, n) == Handled(status, [error |-> msg], stored, n)

\* index(): give the client a user_id if it has none, render the sessions
index ==
    /\ pc = "app"
    /\ user_id' = IF user_id = NoUser THEN NewUserId ELSE user_id
    /\ served' = [kind |-> "response", handler |-> "index", status |-> 200,
                  body |-> [sessions |-> sessions], gen_calls |-> 0]
    /\ UNCHANGED <<pc, api_key, model_name, model, idx, attempts, listing, calls,
                   upstream, outcome, response_text, matches>>
    /\ UNCHANGED <<content, sections, sessions, output_file>>

\* upload_rfp from update_rfp_data on, lines 60-68: one outcome per way the
\* save can go
RfpStored(stored, file, requirements) ==
    LET upd == RfpUpdate(stored, file.filename, requirements, FileText)
    IN  { LET save == Save(stored, upd.sessions, mode)
          IN  IF ~save.saved
                  THEN Failed(500, PrefixSaving \o DiskError, save.sessions, 1)
                  ELSE Handled(200, [success |-> TRUE,
                                     requirements |-> requirements,
                                     filename |-> file.filename],
                               save.sessions, 1)
          : mode \in SaveModes }

\* upload_rfp, lines 40-71: the outcomes the request can have
RfpOutcomes(stored, user, file) ==
    IF NoFileSelected(file) THEN {Failed(400, MsgNoFile, stored, 0)}
    ELSE IF file.error # <<>> THEN {Failed(500, file.error, stored, 0)}
    ELSE UNION { LET requirements == GenCall(PrefixRfp, up)
                 IN  IF requirements.raised
                         THEN {Failed(500, requirements.value, stored, 1)}
                     ELSE IF user = NoUser THEN {Failed(500, MsgKeyError, stored, 1)}
                     ELSE RfpStored(stored, file, requirements.value)
                 : up \in AnalysisResults }

upload_rfp ==
    /\ pc = "app"
    /\ \E file \in Uploads(RfpFiles, RfpFileErrors) :
          \E r \in RfpOutcomes(sessions, user_id, file) :
              /\ sessions' = r.sessions
              /\ served' = [kind |-> "response", handler |-> "upload_rfp",
                            status |-> r.status, body |-> r.body,
                            gen_calls |-> r.gen_calls, file |-> file]
    /\ UNCHANGED <<pc, api_key, model_name, model, idx, attempts, listing, calls,
                   upstream, outcome, response_text, matches>>
    /\ UNCHANGED <<content, sections, output_file, user_id>>

\* not current_session or 'rfp_requirements' not in current_session
NoRfpYet(current) == DOMAIN current = {} \/ "rfp_requirements" \notin DOMAIN current

\* upload_org from update_org_data on, lines 108-119
OrgStored(stored, file, org_analysis, matching_table, response_prompt) ==
    IF stored = <<>> THEN {Failed(500, MsgNoRfpSession, stored, 3)}
    ELSE LET new == CurrentUpdate(stored, [org_filename |-> file.filename,
                                           org_analysis |-> org_analysis,
                                           matching_table |-> matching_table,
                                           response_prompt |-> response_prompt])
         IN  { LET save == Save(stored, new, mode)
               IN  IF ~save.saved
                       THEN Failed(500, PrefixSaving \o DiskError, save.sessions, 3)
                       ELSE Handled(200, [success |-> TRUE,
                                          org_analysis |-> org_analysis,
                                          matching_table |-> matching_table,
                                          response_prompt |-> response_prompt,
                                          filename |-> file.filename],
                                    save.sessions, 3)
               : mode \in SaveModes }

\* upload_org from create_matching_table on, lines 98-119
OrgMatched(stored, file, org_analysis) ==
    UNION { LET matching == GenCall(PrefixMatching, up)
            IN  IF matching.raised THEN {Failed(500, matching.value, stored, 2)}
                ELSE LET matching_table == parse_matching_table(matching.value)
                     IN  UNION { LET response_prompt == GenCall(PrefixPrompt, up3)
                                 IN  IF response_prompt.raised
                                         THEN {Failed(500, response_prompt.value,
                                                      stored, 3)}
                                         ELSE OrgStored(stored, file, org_analysis,
                                                        matching_table,
                                                        response_prompt.value)
                                 : up3 \in AnalysisResults }
            : up \in MatchingResults }

\* upload_org from analyze_organization on, lines 97-119
OrgAnalyzed(stored, file) ==
    UNION { LET org_analysis == GenCall(PrefixOrganization, up)
            IN  IF org_analysis.raised
                    THEN {Failed(500, org_analysis.value, stored, 1)}
                    ELSE OrgMatched(stored, file, org_analysis.value)
            : up \in AnalysisResults }

\* as upload_org, with the organization analysed before the session is looked at
OrgOutcomesAnalyzeFirst(stored, user, file) ==
    IF NoFileSelected(file) THEN {Failed(400, MsgNoOrgFile, stored, 0)}
    ELSE IF file.error # <<>> THEN {Failed(500, file.error, stored, 0)}
    ELSE IF user = NoUser THEN {Failed(500, MsgKeyError, stored, 0)}
    ELSE IF NoRfpYet(get_current_session(stored))
        THEN { IF GenCall(PrefixOrganization, up).raised
                   THEN Failed(500, GenCall(PrefixOrganization, up).value, stored, 1)
                   ELSE Failed(400, MsgUploadRfpFirst, stored, 1)
               : up \in AnalysisResults }
    ELSE OrgAnalyzed(stored, file)

\* upload_org, lines 75-122: the outcomes the request can have
OrgOutcomes(stored, user, file) ==
    IF NoFileSelected(file) THEN {Failed(400, MsgNoOrgFile, stored, 0)}
    ELSE IF file.error # <<>> THEN {Failed(500, file.error, stored, 0)}
    ELSE IF user = NoUser THEN {Failed(500, MsgKeyError, stored, 0)}
    ELSE IF NoRfpYet(get_current_session(stored))
        THEN {Failed(400, MsgUploadRfpFirst, stored, 0)}
    ELSE OrgAnalyzed(stored, file)

upload_org ==
    /\ pc = "app"
    /\ \E file \in Uploads(OrgFiles, OrgFileErrors) :
          \E r \in OrgOutcomes(sessions, user_id, file) :
              /\ sessions' = r.sessions
              /\ served' = [kind |-> "response", handler |-> "upload_org",
                            status |-> r.status, body |-> r.body,
                            gen_calls |-> r.gen_calls, file |-> file]
    /\ UNCHANGED <<pc, api_key, model_name, model, idx, attempts, listing, calls,
                   upstream, outcome, response_text, matches>>
    /\ UNCHANGED <<content, sections, output_file, user_id>>

\* _add_header: the title, the separator and an empty paragraph (the date
\* paragraph is left out)
HeaderParagraphs ==
    << [type |-> "title",
        text |-> <<"R","e","q","u","e","s","t"," ","f","o","r"," ","P","r","o","p","o","s","a","l",
                   " ","R","e","s","p","o","n","s","e">>],
       [type |-> "separator", text |-> <<>>],
       [type |-> "paragraph", text |-> <<>>] >>

\* _add_footer
FooterParagraphs ==
    << [type |-> "paragraph", text |-> <<>>],
       [type |-> "separator", text |-> <<>>],
       [type |-> "paragraph",
        text |-> <<"T","h","i","s"," ","d","o","c","u","m","e","n","t"," ","w","a","s"," ",
                   "g","e","n","e","r","a","t","e","d"," ","u","s","i","n","g"," ",
                   "A","I","-","p","o","w","e","r","e","d"," ","R","F","P"," ",
                   "R","e","s","p","o","n","s","e"," ","S","y","s","t","e","m">>] >>

\* what a failing step raises
DocxCauses ==
    { DiskError,
      <<"s","t","y","l","e","s"," ","p","a","r","t"," ","m","i","s","s","i","n","g">> }

\* create_docx(content, output_path) with the step `failing` raising `cause`:
\* whether it raised, the message of what it raised, and the document saved
create_docx(text, failing, cause) ==
    [ raised |-> failing # "none",
      error |-> IF failing # "none" THEN PrefixDocx \o cause ELSE <<>>,
      doc |-> HeaderParagraphs \o parse_content_sections(text) \o FooterParagraphs ]

\* what a call of create_docx can leave at output_path
FilesAfter(run, failing, before) ==
    IF ~run.raised THEN {[kind |-> "docx", doc |-> run.doc]}
    ELSE IF failing = "save" THEN {before, [kind |-> "partial", doc |-> <<>>]}
    ELSE {before}

\* f"rfp_response_{session['user_id'][:8]}.docx"
OutputFilename(user) ==
    <<"r","f","p","_","r","e","s","p","o","n","s","e","_">>
    \o SubSeq(user, 1, IF Len(user) < 8 THEN Len(user) ELSE 8)
    \o <<".","d","o","c","x">>

\* f'/download/{output_filename}'
DownloadUrl(output_filename) ==
    <<"/","d","o","w","n","l","o","a","d","/">> \o output_filename

\* generate_document from update_output_file on, lines 140-145
OutputStored(stored, output_filename) ==
    IF stored = <<>> THEN {Failed(500, MsgNoActiveSession, stored, 0)}
    ELSE LET new == CurrentUpdate(stored, [output_filename |-> output_filename])
         IN  { LET save == Save(stored, new, mode)
               IN  IF ~save.saved
                       THEN Failed(500, PrefixSaving \o DiskError, save.sessions, 0)
                       ELSE Handled(200, [success |-> TRUE,
                                          download_url |-> DownloadUrl(output_filename)],
                                    save.sessions, 0)
               : mode \in SaveModes }

\* as generate_document after create_docx, going on whether or not it raised
AfterCreateDocxUnchecked(run, stored, output_filename) ==
    OutputStored(stored, output_filename)

\* generate_document after create_docx, lines 137-148
AfterCreateDocx(run, stored, output_filename) ==
    IF run.raised THEN {Failed(500, run.error, stored, 0)}
    ELSE OutputStored(stored, output_filename)

\* request bodies: not JSON, with str of what request.get_json() / data.get
\* raise on it, or JSON with a prompt, empty when the body has none
DocumentRequests ==
    {[json |-> FALSE, prompt |-> <<>>, error |-> e] :
        e \in { <<"4","1","5"," ","U","n","s","u","p","p","o","r","t","e","d"," ",
                  "M","e","d","i","a"," ","T","y","p","e">>,
                <<"'","N","o","n","e","T","y","p","e","'"," ","o","b","j","e","c","t"," ",
                  "h","a","s"," ","n","o"," ","a","t","t","r","i","b","u","t","e"," ",
                  "'","g","e","t","'">> }}
    \cup {[json |-> TRUE, prompt |-> t, error |-> <<>>] :
            t \in { <<>>,
                    <<"S","C","O","P","E","\n","-"," ","o","n"," ","s","i","t","e","\n","\n",
                      "W","e"," ","d","e","l","i","v","e","r",".">> }}

\* the ways a call of create_docx can go: no step fails, or one fails with a cause
DocxRuns ==
    {[failing |-> "none", cause |-> <<>>]}
    \cup {[failing |-> f, cause |-> c] :
             f \in {"header", "content", "footer", "save"}, c \in DocxCauses}

\* generate_document up to create_docx, lines 127-135: the request is
\* answered before any document is made
RejectedEarly(req, user) ==
    IF ~req.json THEN Failed(500, req.error, <<>>, 0)
    ELSE IF req.prompt = <<>> THEN Failed(400, MsgNoPrompt, <<>>, 0)
    ELSE Failed(500, MsgKeyError, <<>>, 0)

\* generate_document, lines 126-148
generate_document ==
    /\ pc = "app"
    /\ \E req \in DocumentRequests :
          IF ~req.json \/ req.prompt = <<>> \/ user_id = NoUser
             THEN /\ served' = [kind |-> "response", handler |-> "generate_document",
                                status |-> RejectedEarly(req, user_id).status,
                                body |-> RejectedEarly(req, user_id).body,
                                gen_calls |-> 0,
                                created |-> "not called", cause |-> <<>>]
                  /\ UNCHANGED <<sessions, output_file>>
             ELSE \E how \in DocxRuns :
                      LET run == create_docx(req.prompt, how.failing, how.cause)
                      IN  /\ output_file' \in FilesAfter(run, how.failing, output_file)
                          /\ \E r \in AfterCreateDocx(run, sessions,
                                                      OutputFilename(user_id)) :
                                /\ sessions' = r.sessions
                                /\ served' = [kind |-> "response",
                                              handler |-> "generate_document",
                                              status |-> r.status, body |-> r.body,
                                              gen_calls |-> 0,
                                              created |-> IF run.raised THEN how.failing
                                                          ELSE "returned",
                                              cause |-> how.cause]
    /\ UNCHANGED <<pc, api_key, model_name, model, idx, attempts, listing, calls,
                   upstream, outcome, response_text, matches>>
    /\ UNCHANGED <<content, sections, user_id>>

InitApp ==
    /\ pc = "app"
    /\ response_text = <<>>
    /\ matches = <<>>
    /\ ServiceIdle
    /\ AppIdle

NextApp ==
    \/ index
    \/ upload_rfp
    \/ upload_org
    \/ generate_document

SpecApp == InitApp /\ [][NextApp]_vars

(***************************************************************************)
(* Claims about the requests                                               *)
(***************************************************************************)
\* C14: when a step of create_docx fails, the generate_document request is
\* answered with an error that is the one wrapped message carrying the cause,
\* without a download_url, and the stored sessions are as before the request.
C14_FailedDocxLeavesSessions ==
    [][ (/\ served'.kind = "response"
         /\ served'.handler = "generate_document"
         /\ served'.created \in {"header", "content", "footer", "save"})
            => /\ served'.status >= 400
               /\ "download_url" \notin DOMAIN served'.body
               /\ "error" \in DOMAIN served'.body
               /\ served'.body.error = PrefixDocx \o served'.cause
               /\ Len(served'.cause) > 0
               /\ sessions' = sessions ]_vars

\* a document whose save failed, for a user with a stored session
C14_Witness ==
    /\ served.kind = "response"
    /\ served.handler = "generate_document"
    /\ served.created = "save"
    /\ served.status = 500
    /\ output_file.kind = "partial"
    /\ sessions # <<>>

\* the user's current session exists and holds rfp_requirements
HasCurrentRfp(stored) == stored # <<>> /\ "rfp_requirements" \in DOMAIN stored[1]

\* the request carried a named file that was saved and read, from a client
\* with a user_id
ReachedSessionCheck(response, user) ==
    /\ response.file.field
    /\ response.file.filename # ""
    /\ response.file.error = <<>>
    /\ user # NoUser

\* upload_org made a generation call or changed the stored sessions only if
\* the current session held rfp_requirements
OnlyWithRfp ==
    (served'.gen_calls > 0 \/ sessions' # sessions) => HasCurrentRfp(sessions)

\* C15 as stated: upload_org calls the generation service and updates the
\* session only if the current session exists and holds rfp_requirements;
\* otherwise it returns 'Please upload RFP file first' (400), makes no
\* generation call and leaves the stored sessions unchanged.
C15_OrgNeedsRfp ==
    [][ (served'.kind = "response" /\ served'.handler = "upload_org")
            => /\ OnlyWithRfp
               /\ ~HasCurrentRfp(sessions)
                    => /\ served'.status = 400
                       /\ served'.body = [error |-> MsgUploadRfpFirst]
                       /\ served'.gen_calls = 0
                       /\ sessions' = sessions ]_vars

\* C15 as amended: without a current session holding rfp_requirements
\* upload_org makes no generation call and leaves the stored sessions
\* unchanged, and it answers 'Please upload RFP file first' (400) when the
\* request got as far as the session: it carried a named file that was saved
\* and read, and the client has a user_id.
C15_OrgNeedsRfpWhenFileRead ==
    [][ (served'.kind = "response" /\ served'.handler = "upload_org")
            => /\ OnlyWithRfp
               /\ ~HasCurrentRfp(sessions)
                    => /\ served'.gen_calls = 0
                       /\ sessions' = sessions
                       /\ served'.status >= 400
                       /\ ReachedSessionCheck(served', user_id)
                            => /\ served'.status = 400
                               /\ served'.body = [error |-> MsgUploadRfpFirst] ]_vars

\* an organization file read for a user who has no session yet
C15_Witness ==
    /\ served.kind = "response"
    /\ served.handler = "upload_org"
    /\ ReachedSessionCheck(served, user_id)
    /\ sessions = <<>>
    /\ served.status = 400
    /\ served.gen_calls = 0

(***************************************************************************)
(* Claims about the stored sessions                                        *)
(***************************************************************************)
\* C16: right after update_rfp_data(user, filename, requirements, content)
\* returns, get_current_session(user) is the session with that rfp_filename
\* and the rfp_requirements just stored.
C16_CurrentIsLastUploaded ==
    (served.kind = "return" /\ served.op = "update_rfp_data")
        => /\ sessions # <<>>
           /\ get_current_session(sessions).rfp_filename = served.value.rfp_filename
           /\ get_current_session(sessions).rfp_requirements
                  = served.value.rfp_requirements

====
